---- MODULE Spec2Model ----
(***************************************************************************)
(* A plotting session of plot.py (class PowerMeterPlot): the sample        *)
(* buffer (timeData, powerData), the region selector of the overview plot  *)
(* (the Visible Range), the polling timer, the start/stop button and the   *)
(* values handed to the plot widgets on every tick.                        *)
(*                                                                         *)
(* Times are integers (seconds of the wall clock), powers are integers in  *)
(* units of 0.1 uW (1e-7 W), so that 1e-3 W is the integer Milliwatt.      *)
(*                                                                         *)
(* The Qt event loop is single threaded and every callback below runs to   *)
(* completion before the next event is dispatched (update() makes a        *)
(* blocking read and never re-enters the loop), so each callback is one    *)
(* action.                                                                 *)
(***************************************************************************)
EXTENDS Integers, Sequences, FiniteSets, TLC

\* ------------------------------------------------------------------ bounds
\* largest wall-clock value a tick may read
MaxTime == 5
\* largest number of samples the buffer may hold
MaxLen == 3
\* largest buffer size whose strides and series lengths are computed
MaxCount == 2001
\* most samples a window cuts off at either end of such a buffer
MaxCrop == 1
MaxPower == 20000
MaxWavelength == 5
MaxEvents == 6

\* --------------------------------------------------------- program values
\* stride = len(self.timeData) // 1000 + 1
StridePoints == 1000
\* powerData[-1] > 1e-3, in units of 0.1 uW
Milliwatt == 10000
\* pg.LinearRegionItem() starts with values (0, 1) and no bounds
InitRegion == <<0, 1>>
\* the wall clock (seconds since the epoch) lies beyond the initial region:
\* the session is constructed at StartTime, every tick reads a later time
StartTime == InitRegion[2]
\* powers the instrument may return, in units of 0.1 uW: a small negative
\* reading, zero and 2 mW
PowerValues == {-5, 0, 20000}
\* what a call of the Instrument Reader can produce: a power, or an exception
ReadOutcomes ==
    {[ok |-> TRUE, pow |-> p] : p \in PowerValues} \cup {[ok |-> FALSE, pow |-> 0]}
\* the items of the sample-rate combo box (timer interval in ms)
Rates(isNT) == IF isNT THEN {10000, 1000, 100, 20} ELSE {10000, 1000, 100, 10, 0}
\* a region without bounds
NoBounds == <<>>

VARIABLES
    nt,             \* os.name == "nt"
    timeData,       \* self.timeData
    powerData,      \* self.powerData
    lines,          \* the two line values of self.region
    bounds,         \* the bounds of self.region (None until the first setBounds)
    timerActive,    \* self.timer.isActive()
    interval,       \* self.timer.interval()
    checked,        \* self.startstop.isChecked()
    text,           \* self.startstop.text()
    style,          \* self.startstop style sheet: "plain" or "alert"
    clock,          \* the wall-clock time of the last callback that read it
    maincurve,      \* data of the zoomed plot
    timecurve,      \* data of the overview plot
    maxline,        \* value of the max line
    current_power,  \* the current-reading label
    numvals,        \* the "# readings" label
    last,           \* history: the last callback that ran and what it saw
    failed,         \* history: some read of this session has failed
    written,        \* history: the range of the last manual write no tick has seen yet
    appended,       \* history: the samples appended since the last reset
    dialog,         \* save() is waiting in QFileDialog.getSaveFileName
    file,           \* the contents of the file save() wrote last
    auto,           \* PowerMeterTracker.auto
    attached,       \* the device paths that are plugged in
    items,          \* the item of self.listWidget for each device path, if any
    orphans,        \* live processes per path that no item refers to any more
    quit,           \* QApplication.quit() has been called
    events,         \* history: how many user and device events have happened
    pass,           \* history: the last supervisor step and what a pass did
    pIn,            \* the inputs of a function of update() applied on its own
    pOut            \* its result

sessionVars == <<nt, timeData, powerData, lines, bounds, timerActive, interval,
                 checked, text, style, clock, maincurve, timecurve, maxline,
                 current_power, numvals, last, failed, written, appended,
                 dialog, file>>
policyVars == <<pIn, pOut>>
saveVars == <<dialog, file>>
trackerVars == <<auto, attached, items, orphans, quit, events, pass>>
vars == <<sessionVars, policyVars, trackerVars>>

\* --------------------------------------------------------------- helpers
Min2(a, b) == IF a <= b THEN a ELSE b
Max2(a, b) == IF a >= b THEN a ELSE b

\* Python truthiness of what try_read_pm returned (None, or a float): `if pow:`
Truthy(rd) == ~rd.isNone /\ rd.pow # 0

\* pg.InfiniteLine.setPos: a line value is kept inside the bounds, if any
Clamp(v, b) == IF b = NoBounds THEN v ELSE Max2(b[1], Min2(v, b[2]))

\* getRegion as a slip would have it: the bounds of the region are read
\* instead of its two line values
getRegion_readsBounds == IF bounds = NoBounds THEN InitRegion ELSE bounds

\* self.region.getRegion(): the two line values, sorted
getRegion == <<Min2(lines[1], lines[2]), Max2(lines[1], lines[2])>>

\* setBounds as a slip would have it: the call of line 129 left out
setBounds_omitted(l, b) == l

\* self.region.setBounds(b): both lines are re-clamped to the new bounds
setBounds(l, b) == <<Clamp(l[1], b), Clamp(l[2], b)>>

\* self.region.setRegion(rgn) on lines l with bounds b
setRegion(l, b, rgn) ==
    IF l[1] = rgn[1] /\ l[2] = rgn[2] THEN l
    ELSE <<Clamp(rgn[1], b), Clamp(rgn[2], b)>>

\* AutoExtend with the two policies tested in the other order
AutoExtend_upperFirst(minX, maxX, times, now) ==
    IF maxX >= times[Len(times)]
    THEN [minX |-> minX, maxX |-> now, fired |-> "upper"]
    ELSE IF minX < times[1]
         THEN [minX |-> times[1], maxX |-> now, fired |-> "lower"]
         ELSE [minX |-> minX, maxX |-> maxX, fired |-> "none"]

\* AutoExtend with `>` for `>=` in the upper-bound policy
AutoExtend_strictUpper(minX, maxX, times, now) ==
    IF minX < times[1]
    THEN [minX |-> times[1], maxX |-> now, fired |-> "lower"]
    ELSE IF maxX > times[Len(times)]
         THEN [minX |-> minX, maxX |-> now, fired |-> "upper"]
         ELSE [minX |-> minX, maxX |-> maxX, fired |-> "none"]

\* AutoExtend with the upper bound compared with the first sample, not the last
AutoExtend_firstSample(minX, maxX, times, now) ==
    IF minX < times[1]
    THEN [minX |-> times[1], maxX |-> now, fired |-> "lower"]
    ELSE IF maxX >= times[1]
         THEN [minX |-> minX, maxX |-> now, fired |-> "upper"]
         ELSE [minX |-> minX, maxX |-> maxX, fired |-> "none"]

\* update(), lines 91-96: the two auto-extend policies, for a non-empty buffer
AutoExtend(minX, maxX, times, now) ==
    IF minX < times[1]
    THEN [minX |-> times[1], maxX |-> now, fired |-> "lower"]
    ELSE IF maxX >= times[Len(times)]
         THEN [minX |-> minX, maxX |-> now, fired |-> "upper"]
         ELSE [minX |-> minX, maxX |-> maxX, fired |-> "none"]

\* update(), lines 90-96: the range the tick works with
TickRange(rgn, times, now) ==
    IF times # <<>>
    THEN AutoExtend(rgn[1], rgn[2], times, now)
    ELSE [minX |-> rgn[1], maxX |-> rgn[2], fired |-> "none"]

\* try_read_pm with self.timer.stop() missing from the except branch
try_read_pm_keepsTimer(r) ==
    IF r.ok
    THEN [isNone |-> FALSE, pow |-> r.pow,
          timer |-> timerActive, text |-> text, style |-> style]
    ELSE [isNone |-> TRUE, pow |-> 0,
          timer |-> timerActive, text |-> "Disconnected", style |-> "alert"]

\* try_read_pm() for a read with outcome r: the value returned and the timer
\* and button it leaves behind
try_read_pm(r) ==
    IF r.ok
    THEN [isNone |-> FALSE, pow |-> r.pow,
          timer |-> timerActive, text |-> text, style |-> style]
    ELSE [isNone |-> TRUE, pow |-> 0,
          timer |-> FALSE, text |-> "Disconnected", style |-> "alert"]

\* AppendIf that puts the new sample in front
AppendIf_prepend(seq, rd, v) == IF Truthy(rd) THEN <<v>> \o seq ELSE seq

\* AppendIf that overwrites the newest sample instead of adding one
AppendIf_overwrite(seq, rd, v) ==
    IF ~Truthy(rd) THEN seq
    ELSE IF seq = <<>> THEN <<v>>
    ELSE [seq EXCEPT ![Len(seq)] = v]

\* update(), lines 100-102: the sample is stored when `if pow:` passes
AppendIf(seq, rd, v) == IF Truthy(rd) THEN Append(seq, v) ELSE seq

\* `while self.timeData[i] < minX: i += 1` from i (0-based); -1 is IndexError
RECURSIVE ScanI(_, _, _)
ScanI(times, minX, i) ==
    IF i >= Len(times) THEN -1
    ELSE IF times[i + 1] < minX THEN ScanI(times, minX, i + 1)
    ELSE i

\* the Python element self.timeData[k], k in -len..len-1
PyIndex(times, k) == IF k >= 0 THEN times[k + 1] ELSE times[Len(times) + k + 1]

\* `while self.timeData[j-1] > maxX: j -= 1` from j; [raised |-> TRUE] is
\* IndexError (a negative index wraps around before it runs off the list)
RECURSIVE ScanJ(_, _, _)
ScanJ(times, maxX, j) ==
    IF j - 1 >= Len(times) \/ j - 1 < 0 - Len(times) THEN [raised |-> TRUE, j |-> j]
    ELSE IF PyIndex(times, j - 1) > maxX THEN ScanJ(times, maxX, j - 1)
    ELSE [raised |-> FALSE, j |-> j]

\* Crop with `<=` for `<` in the lower-bound scan
Crop_inclusiveLower(times, minX, maxX) ==
    LET i == ScanI(times, minX + 1, 0)
        sj == IF Len(times) > 1 THEN ScanJ(times, maxX, Len(times))
              ELSE [raised |-> FALSE, j |-> Len(times)]
    IN  IF i < 0 THEN [raised |-> TRUE, i |-> 0, j |-> Len(times)]
        ELSE IF sj.raised THEN [raised |-> TRUE, i |-> i, j |-> sj.j]
        ELSE [raised |-> FALSE, i |-> i, j |-> sj.j]

\* Crop with `>=` for `>` in the upper-bound scan
Crop_exclusiveUpper(times, minX, maxX) ==
    LET i == ScanI(times, minX, 0)
        sj == IF Len(times) > 1 THEN ScanJ(times, maxX - 1, Len(times))
              ELSE [raised |-> FALSE, j |-> Len(times)]
    IN  IF i < 0 THEN [raised |-> TRUE, i |-> 0, j |-> Len(times)]
        ELSE IF sj.raised THEN [raised |-> TRUE, i |-> i, j |-> sj.j]
        ELSE [raised |-> FALSE, i |-> i, j |-> sj.j]

\* update(), lines 105-111: crop to the index interval [i, j)
Crop(times, minX, maxX) ==
    LET i == ScanI(times, minX, 0)
        sj == IF Len(times) > 1 THEN ScanJ(times, maxX, Len(times))
              ELSE [raised |-> FALSE, j |-> Len(times)]
    IN  IF i < 0 THEN [raised |-> TRUE, i |-> 0, j |-> Len(times)]
        ELSE IF sj.raised THEN [raised |-> TRUE, i |-> i, j |-> sj.j]
        ELSE [raised |-> FALSE, i |-> i, j |-> sj.j]

\* the indices a Python slice [i:j:stride] visits, 0 <= i, stride >= 1
SlicePoints(i, j, stride) == {k \in i..(j - 1) : (k - i) % stride = 0}

\* the Python slice seq[i:j:stride] for 0 <= i, 0 <= j <= len, stride >= 1
\* (the k-th element of the slice is the element at the k-th index visited)
Slice(seq, i, j, stride) ==
    LET visited == SlicePoints(i, Min2(j, Len(seq)), stride)
    IN  [k \in 1..Cardinality(visited) |-> seq[i + (k - 1) * stride + 1]]

\* Stride with twice the budget
Stride_doubleBudget(n) == (n \div (2 * StridePoints)) + 1

\* update(), lines 115-116: the stride that keeps n points under the budget
Stride(n) == (n \div StridePoints) + 1

\* Series with the two strides taken for one another
Series_swapStrides(td, pd, i, j, stride, stride2) ==
    [main |-> [x |-> Slice(td, i, j, stride), y |-> Slice(pd, i, j, stride)],
     time |-> [x |-> Slice(td, 0, Len(td), stride2), y |-> Slice(pd, 0, Len(pd), stride2)]]

\* update(), lines 117-119: the zoomed series [i:j:stride2] and the overview
\* series [::stride] of the buffer (td, pd)
Series(td, pd, i, j, stride, stride2) ==
    [main |-> [x |-> Slice(td, i, j, stride2), y |-> Slice(pd, i, j, stride2)],
     time |-> [x |-> Slice(td, 0, Len(td), stride), y |-> Slice(pd, 0, Len(pd), stride)]]

\* MaxOf that looks at the newest sample only
MaxOf_newest(seq) == seq[Len(seq)]

\* max(self.powerData) of a non-empty list
RECURSIVE MaxOf(_)
MaxOf(seq) ==
    IF Len(seq) = 1 THEN seq[1] ELSE Max2(seq[1], MaxOf(Tail(seq)))

\* n / d rounded to the nearest integer (d > 0), the rounding of the format
\* specification `.2f`; an exact tie, which Python settles by the binary value
\* of the float, goes to even here
RoundDiv(n, d) ==
    LET q == n \div d
        r == n % d
    IN  IF 2 * r < d THEN q
        ELSE IF 2 * r > d THEN q + 1
        ELSE IF q % 2 = 0 THEN q ELSE q + 1

\* FormatPower with `>=` for `>`
FormatPower_inclusive(p) ==
    IF p >= Milliwatt THEN [unit |-> "mW", hundredths |-> RoundDiv(p, 100)]
    ELSE [unit |-> "uW", hundredths |-> 10 * p]

\* update(), lines 121-125: the text of the current-reading label for a last
\* power p: f"{p*1e3:.2f} mW" or f"{p*1e6:.2f} uW", as the number of
\* hundredths printed and the unit (50 hundredths, "uW" is "0.50 uW")
FormatPower(p) ==
    IF p > Milliwatt
    THEN [unit |-> "mW", hundredths |-> RoundDiv(p, 100)]
    ELSE [unit |-> "uW", hundredths |-> 10 * p]

\* ------------------------------------------------------------ the session
\* what `last` holds after a callback other than update()
Ran(op) ==
    [op |-> op, raised |-> FALSE, read |-> [ok |-> TRUE, pow |-> 0], now |-> clock,
     startLen |-> 0, startRegion |-> <<0, 0>>, afterFail |-> FALSE,
     pending |-> <<>>, fired |-> "none", minX |-> 0, maxX |-> 0, i |-> 0, j |-> 0]

NoPolicy == [times |-> <<>>, minX |-> 0, maxX |-> 0, now |-> 0]
NoResult == [applied |-> FALSE, minX |-> 0, maxX |-> 0, fired |-> "none"]

\* the device paths the supervisor can meet
Devices == {"/dev/usbtmc0", "/dev/usbtmc1"}

\* no item of the list has the path as its text. Of an item: its check state,
\* its data ("none" for None, else the process it holds, "alive" or "dead")
\* and, on Windows, whether that process has connected to the device
NoItem == [listed |-> FALSE, checked |-> FALSE, data |-> "none", connected |-> FALSE]

\* a supervisor step that is no pass of main_loop; of a pass: the paths it
\* started a process for, those of them whose process had died, and the paths
\* whose dead process it cleared
Did(op) == [op |-> op, started |-> {}, restarted |-> {}, reaped |-> {}]

\* no save dialog is open; startLen is history, the buffer's length when the
\* dialog was opened
NoDialog == [open |-> FALSE, startLen |-> 0]

\* save() has written no file yet
NoFile == [header |-> "", rows |-> <<>>]

\* PowerMeterPlot.__init__ and initUI
InitPlot ==
    /\ nt \in BOOLEAN
    /\ timeData = <<>>
    /\ powerData = <<>>
    /\ lines = InitRegion
    /\ bounds = NoBounds
    /\ timerActive = TRUE
    /\ interval = 100
    /\ checked = FALSE
    /\ text = "STOP"
    /\ style = "plain"
    /\ clock = StartTime
    /\ maincurve = [x |-> <<>>, y |-> <<>>]
    /\ timecurve = [x |-> <<>>, y |-> <<>>]
    /\ maxline = 0
    /\ current_power = [unit |-> "W", hundredths |-> 0]
    /\ numvals = 0
    /\ last = Ran("init")
    /\ failed = FALSE
    /\ written = <<>>
    /\ appended = 0
    /\ dialog = NoDialog
    /\ file = NoFile

\* a plotting process on its own: no supervisor window
InitSession ==
    /\ InitPlot
    /\ auto = FALSE
    /\ attached = {}
    /\ items = [d \in Devices |-> NoItem]
    /\ orphans = [d \in Devices |-> 0]
    /\ quit = FALSE
    /\ events = 0
    /\ pass = Did("init")

Init == InitSession /\ pIn = NoPolicy /\ pOut = NoResult

\* update() at wall-clock time now, with a read of outcome r
update(now, r) ==
    LET rgn == getRegion
        ext == TickRange(rgn, timeData, now)
        rd  == try_read_pm(r)
        td  == AppendIf(timeData, rd, now)
        pd  == AppendIf(powerData, rd, r.pow)
        cr  == Crop(td, ext.minX, ext.maxX)
        n   == cr.j - cr.i
        stride  == Stride(Len(td))
        stride2 == Stride(n)
        out == Series(td, pd, cr.i, cr.j, stride, stride2)
        nb  == <<td[1], td[Len(td)]>>
    IN  /\ clock' = now
        /\ timerActive' = rd.timer
        /\ text' = rd.text
        /\ style' = rd.style
        /\ timeData' = td
        /\ powerData' = pd
        /\ failed' = (failed \/ ~r.ok)
        /\ written' = <<>>
        /\ appended' = IF Truthy(rd) THEN appended + 1 ELSE appended
        /\ last' = [op |-> "tick", raised |-> cr.raised, read |-> r, now |-> now,
                    startLen |-> Len(timeData), startRegion |-> rgn,
                    afterFail |-> failed, pending |-> written, fired |-> ext.fired,
                    minX |-> ext.minX, maxX |-> ext.maxX, i |-> cr.i, j |-> cr.j]
        /\ IF cr.raised
           THEN \* IndexError leaves update() before anything is drawn
                UNCHANGED <<maincurve, timecurve, maxline, current_power, numvals,
                            lines, bounds>>
           ELSE /\ maincurve' = out.main
                /\ maxline' = MaxOf(pd)
                /\ timecurve' = out.time
                /\ current_power' = FormatPower(pd[Len(pd)])
                /\ numvals' = n
                /\ bounds' = nb
                /\ lines' = setRegion(setBounds(lines, nb), nb, <<ext.minX, ext.maxX>>)
        /\ UNCHANGED <<nt, interval, checked>>

\* self.timer.timeout: the polling timer fires
Tick ==
    /\ timerActive
    /\ \E now \in (clock + 1)..MaxTime, r \in ReadOutcomes :
          /\ Len(AppendIf(timeData, try_read_pm(r), now)) <= MaxLen
          /\ update(now, r)
    /\ UNCHANGED <<policyVars, saveVars, trackerVars>>

\* the values a line of the region can be dragged to
DragValues ==
    IF bounds = NoBounds THEN 0..StartTime ELSE bounds[1]..bounds[2]

\* the user drags the region selector or one of its lines
Drag ==
    /\ ~dialog.open
    /\ \E a \in DragValues, b \in DragValues :
          /\ a <= b
          /\ lines' = <<a, b>>
          /\ written' = <<a, b>>
    /\ last' = Ran("user")
    /\ UNCHANGED <<nt, timeData, powerData, bounds, timerActive, interval, checked,
                   text, style, clock, maincurve, timecurve, maxline, current_power,
                   numvals, failed, appended>>
    /\ UNCHANGED <<policyVars, saveVars, trackerVars>>

\* mouseDoubleClickEvent: the region is reset to the whole buffer
mouseDoubleClickEvent ==
    /\ ~dialog.open
    /\ IF timeData # <<>>
       THEN /\ lines' = setRegion(lines, bounds, <<timeData[1], timeData[Len(timeData)]>>)
            /\ written' = <<Min2(lines'[1], lines'[2]), Max2(lines'[1], lines'[2])>>
       ELSE UNCHANGED <<lines, written>>
    /\ last' = Ran("user")
    /\ UNCHANGED <<nt, timeData, powerData, bounds, timerActive, interval, checked,
                   text, style, clock, maincurve, timecurve, maxline, current_power,
                   numvals, failed, appended>>
    /\ UNCHANGED <<policyVars, saveVars, trackerVars>>

\* initUI.reset: the Reset button
reset ==
    /\ ~dialog.open
    /\ timeData' = <<>>
    /\ powerData' = <<>>
    /\ current_power' = [unit |-> "W", hundredths |-> 0]
    /\ numvals' = 0
    /\ appended' = 0
    /\ last' = Ran("user")
    /\ UNCHANGED <<nt, lines, bounds, timerActive, interval, checked, text, style,
                   clock, maincurve, timecurve, maxline, failed, written>>
    /\ UNCHANGED <<policyVars, saveVars, trackerVars>>

\* startstopEffect without self.timer.stop() in the checked branch
startstopEffect_keepsTimer(isChecked) ==
    IF ~isChecked
    THEN [timer |-> TRUE, style |-> "plain", text |-> "STOP"]
    ELSE [timer |-> TRUE, style |-> "alert", text |-> "STOPPED"]

\* what a click on the start/stop button leaves behind, the button being
\* checkable: the click first toggles isChecked()
startstopEffect(isChecked) ==
    IF ~isChecked
    THEN [timer |-> TRUE, style |-> "plain", text |-> "STOP"]
    ELSE [timer |-> FALSE, style |-> "alert", text |-> "STOPPED"]

\* initUI.startstop: a click on the start/stop button
startstop ==
    /\ ~dialog.open
    /\ checked' = ~checked
    /\ timerActive' = startstopEffect(checked').timer
    /\ style' = startstopEffect(checked').style
    /\ text' = startstopEffect(checked').text
    /\ last' = Ran("user")
    /\ UNCHANGED <<nt, timeData, powerData, lines, bounds, interval, clock,
                   maincurve, timecurve, maxline, current_power, numvals, failed,
                   written, appended>>
    /\ UNCHANGED <<policyVars, saveVars, trackerVars>>

\* samplerate.currentIndexChanged: self.timer.setInterval(currentData); the
\* interval of a stopped timer changes without starting it
setInterval ==
    /\ ~dialog.open
    /\ \E v \in Rates(nt) \ {interval} : interval' = v
    /\ last' = Ran("user")
    /\ UNCHANGED <<nt, timeData, powerData, lines, bounds, timerActive, checked,
                   text, style, clock, maincurve, timecurve, maxline, current_power,
                   numvals, failed, written, appended>>
    /\ UNCHANGED <<policyVars, saveVars, trackerVars>>

Next ==
    \/ Tick
    \/ Drag
    \/ mouseDoubleClickEvent
    \/ reset
    \/ startstop
    \/ setInterval

Spec == Init /\ [][Next]_vars

\* ------------------------------------------- the auto-extend policy alone
\* strictly increasing sample times
RECURSIVE Increasing(_)
Increasing(seq) ==
    Len(seq) <= 1 \/ (seq[1] < seq[2] /\ Increasing(Tail(seq)))

SampleTimes ==
    {t \in UNION {[1..n -> 0..MaxTime] : n \in 1..MaxLen} : Increasing(t)}

\* a region, a non-empty buffer and the time of a tick on it
PolicyInputs ==
    {[times |-> t, minX |-> a, maxX |-> b, now |-> n] :
        t \in SampleTimes, a \in 0..MaxTime, b \in 0..MaxTime, n \in 0..MaxTime}

InitPolicy ==
    /\ InitSession
    /\ nt = FALSE
    /\ pIn \in {p \in PolicyInputs :
                   p.minX <= p.maxX /\ p.now >= p.times[Len(p.times)]}
    /\ pOut = NoResult

\* update(), lines 91-96, on the inputs pIn
ApplyPolicy ==
    /\ ~pOut.applied
    /\ LET ext == AutoExtend(pIn.minX, pIn.maxX, pIn.times, pIn.now)
       IN  pOut' = [applied |-> TRUE, minX |-> ext.minX, maxX |-> ext.maxX,
                    fired |-> ext.fired]
    /\ UNCHANGED <<pIn, sessionVars, trackerVars>>

NextPolicy == ApplyPolicy

PolicySpec == InitPolicy /\ [][NextPolicy]_vars

\* ------------------------------------- strides and series lengths alone
\* a buffer size and a window [i, j) of it
CountInputs ==
    {[count |-> n, i |-> a, j |-> n - c] :
        n \in 1..MaxCount, a \in 0..MaxCrop, c \in 0..MaxCrop}

InitCount ==
    /\ InitSession
    /\ nt = FALSE
    /\ pIn \in {c \in CountInputs : c.i <= c.j}
    /\ pOut = NoResult

\* update(), lines 113-119, on a buffer of pIn.count samples cropped to
\* [pIn.i, pIn.j): the two strides and the number of points of each series
ApplyCount ==
    /\ ~pOut.applied
    /\ LET n == pIn.j - pIn.i
           stride == Stride(pIn.count)
           stride2 == Stride(n)
       IN  pOut' = [applied |-> TRUE, numvals |-> n,
                    stride |-> stride, stride2 |-> stride2,
                    overview |-> Cardinality(SlicePoints(0, pIn.count, stride)),
                    zoomed |-> Cardinality(SlicePoints(pIn.i, pIn.j, stride2))]
    /\ UNCHANGED <<pIn, sessionVars, trackerVars>>

NextCount == ApplyCount

CountSpec == InitCount /\ [][NextCount]_vars

\* ------------------------------------------ a session of ten good reads
\* the readings 1e-6, 2e-6, ..., 10e-6 W
ScenarioPowers == [k \in 1..10 |-> 10 * k]

\* the polling timer fires once a second from the first second after
\* construction, and the k-th read returns the k-th reading
ScenarioTick ==
    /\ timerActive
    /\ clock - StartTime < Len(ScenarioPowers)
    /\ update(clock + 1, [ok |-> TRUE, pow |-> ScenarioPowers[clock + 1 - StartTime]])
    /\ UNCHANGED <<policyVars, saveVars, trackerVars>>

NextScenario ==
    \/ ScenarioTick
    \/ Drag
    \/ mouseDoubleClickEvent

ScenarioSpec == Init /\ [][NextScenario]_vars

\* ------------------------------------------------------------ saving
\* save(), line 359: the header line, without its newline
Header == "Time (s), Power (W)"

\* WriteRows with the newest sample first
WriteRows_newestFirst(td, pd) ==
    [k \in 1..Min2(Len(td), Len(pd)) |->
        <<td[Min2(Len(td), Len(pd)) + 1 - k], pd[Min2(Len(td), Len(pd)) + 1 - k]>>]

\* save(), lines 360-361: one line f"{t}, {p}" per pair of zip(timeData,
\* powerData), a line being the two numbers it prints
WriteRows(td, pd) == [k \in 1..Min2(Len(td), Len(pd)) |-> <<td[k], pd[k]>>]

\* save(), lines 348-356: a click on Save opens the file dialog, which is
\* modal and runs its own event loop: the timer goes on firing, the window
\* takes no input
save ==
    /\ ~dialog.open
    /\ dialog' = [open |-> TRUE, startLen |-> Len(timeData)]
    /\ last' = Ran("user")
    /\ UNCHANGED <<nt, timeData, powerData, lines, bounds, timerActive, interval,
                   checked, text, style, clock, maincurve, timecurve, maxline,
                   current_power, numvals, failed, written, appended, file>>
    /\ UNCHANGED <<policyVars, trackerVars>>

\* save(), lines 357-362: the dialog returns a file name and the file is
\* written
saveAccept ==
    /\ dialog.open
    /\ dialog' = [open |-> FALSE, startLen |-> dialog.startLen]
    /\ file' = [header |-> Header, rows |-> WriteRows(timeData, powerData)]
    /\ last' = Ran("save")
    /\ UNCHANGED <<nt, timeData, powerData, lines, bounds, timerActive, interval,
                   checked, text, style, clock, maincurve, timecurve, maxline,
                   current_power, numvals, failed, written, appended>>
    /\ UNCHANGED <<policyVars, trackerVars>>

\* save(), line 357: the dialog is cancelled and returns ""
saveCancel ==
    /\ dialog.open
    /\ dialog' = NoDialog
    /\ last' = Ran("user")
    /\ UNCHANGED <<nt, timeData, powerData, lines, bounds, timerActive, interval,
                   checked, text, style, clock, maincurve, timecurve, maxline,
                   current_power, numvals, failed, written, appended, file>>
    /\ UNCHANGED <<policyVars, trackerVars>>

\* the session of good reads with resets and saves
NextSave ==
    \/ ScenarioTick
    \/ reset
    \/ save
    \/ saveAccept
    \/ saveCancel

SaveSpec == Init /\ [][NextSave]_vars

\* ------------------------------------------------- the two series alone
\* the buffers a session can hold within the bounds (a stored power is never
\* 0), each with every window [i, j)
SmallSeriesInputs ==
    {[td |-> t, pd |-> q, i |-> a, j |-> b] :
        t \in SampleTimes, q \in UNION {[1..n -> PowerValues \ {0}] : n \in 1..MaxLen},
        a \in 0..MaxLen, b \in 0..MaxLen}

\* buffer sizes on either side of the sizes at which a stride changes
LargeCounts ==
    {StridePoints - 1, StridePoints, 2 * StridePoints - 1, 2 * StridePoints, MaxCount}

\* a buffer of n samples, one a second, all of different power, with the
\* windows that cut up to MaxCrop samples at either end
LargeSeriesInputs ==
    {[td |-> [k \in 1..n |-> StartTime + k], pd |-> [k \in 1..n |-> 10 * k],
      i |-> a, j |-> n - c] :
        n \in LargeCounts, a \in 0..MaxCrop, c \in 0..MaxCrop}

InitSeries ==
    /\ InitSession
    /\ nt = FALSE
    /\ pIn \in {b \in SmallSeriesInputs :
                   Len(b.td) = Len(b.pd) /\ b.i <= b.j /\ b.j <= Len(b.td)}
               \cup LargeSeriesInputs
    /\ pOut = NoResult

\* update(), lines 113-119, on the buffer (pIn.td, pIn.pd) cropped to
\* [pIn.i, pIn.j)
ApplySeries ==
    /\ ~pOut.applied
    /\ LET n == pIn.j - pIn.i
           stride == Stride(Len(pIn.td))
           stride2 == Stride(n)
           out == Series(pIn.td, pIn.pd, pIn.i, pIn.j, stride, stride2)
       IN  pOut' = [applied |-> TRUE, numvals |-> n,
                    stride |-> stride, stride2 |-> stride2,
                    main |-> out.main, time |-> out.time]
    /\ UNCHANGED <<pIn, sessionVars, trackerVars>>

NextSeries == ApplySeries

SeriesSpec == InitSeries /\ [][NextSeries]_vars

\* ---------------------------------------------- the reading label alone
\* the powers the buffer's last sample can have, up to 2 mW either side of 0
\* (a stored power is never 0)
FormatInputs == ((0 - MaxPower)..MaxPower) \ {0}

InitFormat ==
    /\ InitSession
    /\ nt = FALSE
    /\ pIn \in FormatInputs
    /\ pOut = NoResult

\* update(), lines 121-125, for a last power pIn
ApplyFormat ==
    /\ ~pOut.applied
    /\ pOut' = [applied |-> TRUE, label |-> FormatPower(pIn)]
    /\ UNCHANGED <<pIn, sessionVars, trackerVars>>

NextFormat == ApplyFormat

FormatSpec == InitFormat /\ [][NextFormat]_vars

\* ------------------------------------------------ the driver's wavelength
\* setWaveLength with the check against the maximum left out
setWaveLength_noMaximum(wavelengthMin, wavelengthMax, wavelength) ==
    IF wavelengthMin > wavelength THEN wavelengthMin ELSE wavelength

\* PM100D.setWaveLength, lines 203-216: the wavelength handed to the device
setWaveLength(wavelengthMin, wavelengthMax, wavelength) ==
    IF wavelengthMin <= wavelength /\ wavelength <= wavelengthMax
    THEN wavelength
    ELSE LET w == IF wavelengthMin > wavelength THEN wavelengthMin ELSE wavelength
         IN  IF w > wavelengthMax THEN wavelengthMax ELSE w

\* the range the instrument reports (getWavelength(1), getWavelength(2)), the
\* wavelength it is set to (getWavelength(0)) and the wavelength asked for
WavelengthInputs ==
    {[min |-> a, max |-> b, set |-> c, wavelength |-> w] :
        a \in 1..MaxWavelength, b \in 1..MaxWavelength, c \in 1..MaxWavelength,
        w \in 0..(MaxWavelength + 1)}

InitWavelength ==
    /\ InitSession
    /\ nt = TRUE
    /\ pIn \in {d \in WavelengthInputs : d.min <= d.set /\ d.set <= d.max}
    /\ pOut = NoResult

\* PM100D.setWaveLength(pIn.wavelength), lines 199-220; device is what
\* deviceNET.setWavelength received
ApplyWavelength ==
    /\ ~pOut.applied
    /\ LET sent == setWaveLength(pIn.min, pIn.max, pIn.wavelength)
       IN  pOut' = [applied |-> TRUE, device |-> sent, wavelengthSet |-> sent,
                    wavelengthMin |-> pIn.min, wavelengthMax |-> pIn.max]
    /\ UNCHANGED <<pIn, sessionVars, trackerVars>>

NextWavelength == ApplyWavelength

WavelengthSpec == InitWavelength /\ [][NextWavelength]_vars

\* ------------------------------------------------------- the supervisor
\* main_loop, lines 486-493: the paths the pass works on. On Windows a device
\* that a process has connected to reports the serial number "n/a" and is
\* left out; on Linux they are the device files that exist
Ports ==
    IF nt THEN {d \in attached : ~(items[d].data = "alive" /\ items[d].connected)}
    ELSE attached

\* mp.Process(target=forkPlot, args=(dev,)) and start(), lines 505-509
Started(it) == [it EXCEPT !.data = "alive", !.connected = FALSE]

\* LoopItem that never checks an item itself
LoopItem_neverChecks(it) ==
    IF ~it.listed THEN [NoItem EXCEPT !.listed = TRUE]
    ELSE IF it.checked
         THEN IF it.data = "none" THEN Started(it)
              ELSE IF it.data = "dead"
                   THEN IF auto THEN Started(it)
                        ELSE [it EXCEPT !.data = "none", !.checked = FALSE]
                   ELSE it
    ELSE IF it.data # "none" THEN [it EXCEPT !.data = "none", !.connected = FALSE]
    ELSE it

\* LoopItem that starts a process for a dead one in manual mode too
LoopItem_alwaysRestarts(it) ==
    IF ~it.listed THEN [NoItem EXCEPT !.listed = TRUE]
    ELSE IF it.checked
         THEN IF it.data = "none" THEN Started(it)
              ELSE IF it.data = "dead" THEN Started(it)
              ELSE it
    ELSE IF it.data # "none" THEN [it EXCEPT !.data = "none", !.connected = FALSE]
    ELSE IF auto THEN [it EXCEPT !.checked = TRUE]
    ELSE it

\* main_loop, lines 494-527: the body of `for dev in ports` for the item it
\* of one path
LoopItem(it) ==
    IF ~it.listed THEN [NoItem EXCEPT !.listed = TRUE]
    ELSE IF it.checked
         THEN IF it.data = "none" THEN Started(it)
              ELSE IF it.data = "dead"
                   THEN IF auto THEN Started(it)
                        ELSE [it EXCEPT !.data = "none", !.checked = FALSE]
                   ELSE it
    ELSE IF it.data # "none" THEN [it EXCEPT !.data = "none", !.connected = FALSE]
    ELSE IF auto THEN [it EXCEPT !.checked = TRUE]
    ELSE it

\* main_loop, lines 529-541: is the item it of path d taken out of the list
Taken(d, it, ports) ==
    /\ it.listed
    /\ IF nt THEN d \notin ports /\ it.data # "alive"
       ELSE d \notin attached

\* PowerMeterTracker.__init__ and initUI, which ends with one pass of
\* main_loop in manual mode: the devices plugged in are listed
InitTracker ==
    /\ InitPlot
    /\ pIn = NoPolicy /\ pOut = NoResult
    /\ auto = FALSE
    /\ attached \in SUBSET Devices
    /\ items = [d \in Devices |->
                  IF d \in attached THEN [NoItem EXCEPT !.listed = TRUE] ELSE NoItem]
    /\ orphans = [d \in Devices |-> 0]
    /\ quit = FALSE
    /\ events = 0
    /\ pass = Did("init")

\* self.timer.timeout: one pass of main_loop
main_loop ==
    /\ ~quit
    /\ LET ports == Ports
           visited == [d \in Devices |->
                          IF d \in ports THEN LoopItem(items[d]) ELSE items[d]]
       IN  /\ items' = [d \in Devices |->
                           IF Taken(d, visited[d], ports) THEN NoItem ELSE visited[d]]
           /\ orphans' = [d \in Devices |->
                             IF Taken(d, visited[d], ports) /\ visited[d].data = "alive"
                             THEN orphans[d] + 1 ELSE orphans[d]]
    /\ pass' = [op |-> "main_loop",
                 started |-> {d \in Ports : items[d].data # "alive"
                                             /\ LoopItem(items[d]).data = "alive"},
                 restarted |-> {d \in Ports : items[d].data = "dead"
                                               /\ LoopItem(items[d]).data = "alive"},
                 reaped |-> {d \in Ports : items[d].data = "dead"
                                            /\ LoopItem(items[d]).data = "none"}]
    /\ UNCHANGED <<auto, attached, quit, events>>
    /\ UNCHANGED <<sessionVars, policyVars>>

\* something outside the supervisor happens: at most MaxEvents times
Event ==
    /\ ~quit
    /\ events < MaxEvents
    /\ events' = events + 1
    /\ pass' = Did("event")
    /\ UNCHANGED <<quit, sessionVars, policyVars>>

\* a power meter is plugged in
plug ==
    /\ Event
    /\ \E d \in Devices \ attached : attached' = attached \cup {d}
    /\ UNCHANGED <<auto, items, orphans>>

\* a power meter is unplugged; a process connected to it loses it
unplug ==
    /\ Event
    /\ \E d \in attached :
          /\ attached' = attached \ {d}
          /\ items' = [items EXCEPT ![d].connected = FALSE]
    /\ UNCHANGED <<auto, orphans>>

\* the user clicks the check box of an item (ItemIsUserCheckable, line 481)
setCheckState ==
    /\ Event
    /\ \E d \in Devices :
          /\ items[d].listed
          /\ items' = [items EXCEPT ![d].checked = ~items[d].checked]
    /\ UNCHANGED <<auto, attached, orphans>>

\* initUI.setauto: a click on the Auto button
setauto ==
    /\ Event
    /\ auto' = ~auto
    /\ UNCHANGED <<attached, items, orphans>>

\* the plot window of a process is closed (or the process fails): pg.exec()
\* returns and the process ends
closeWindow ==
    /\ Event
    /\ \/ \E d \in Devices :
             /\ items[d].data = "alive"
             /\ items' = [items EXCEPT ![d].data = "dead", ![d].connected = FALSE]
             /\ UNCHANGED orphans
       \/ \E d \in Devices :
             /\ orphans[d] > 0
             /\ orphans' = [orphans EXCEPT ![d] = orphans[d] - 1]
             /\ UNCHANGED items
    /\ UNCHANGED <<auto, attached>>

\* initPowermeter on Windows: the process of an item connects to its device
connect ==
    /\ ~quit
    /\ nt
    /\ \E d \in attached :
          /\ items[d].data = "alive" /\ ~items[d].connected
          /\ items' = [items EXCEPT ![d].connected = TRUE]
    /\ pass' = Did("event")
    /\ UNCHANGED <<auto, attached, orphans, quit, events>>
    /\ UNCHANGED <<sessionVars, policyVars>>

\* shutdown_program: the Shutdown button
shutdown_program ==
    /\ ~quit
    /\ items' = [d \in Devices |->
                   IF items[d].data = "alive"
                   THEN [items[d] EXCEPT !.data = "dead", !.connected = FALSE]
                   ELSE items[d]]
    /\ quit' = TRUE
    /\ pass' = Did("shutdown")
    /\ UNCHANGED <<auto, attached, orphans, events>>
    /\ UNCHANGED <<sessionVars, policyVars>>

NextTracker ==
    \/ main_loop
    \/ plug
    \/ unplug
    \/ setCheckState
    \/ setauto
    \/ closeWindow
    \/ connect
    \/ shutdown_program

TrackerSpec == InitTracker /\ [][NextTracker]_vars

\* the supervisor's timer keeps firing until the program quits
TrackerLiveSpec == TrackerSpec /\ WF_vars(main_loop)

\* ------------------------------------------------------------ properties
\* the last sample time of a non-empty buffer
LastTime == timeData[Len(timeData)]

\* Once the buffer is non-empty the region lies inside it and its bounds are
\* the buffer's span, so the lower-bound policy never fires in a session and
\* no tick on a non-empty buffer raises.
RegionInsideBuffer ==
    timeData # <<>> =>
        /\ bounds = <<timeData[1], LastTime>>
        /\ timeData[1] <= lines[1] /\ lines[1] <= lines[2] /\ lines[2] <= LastTime
        /\ (last.op = "tick" => (~last.raised /\ last.fired # "lower"))

\* C1: on a tick whose read fails no sample is appended (times and powers
\* are left as they were), the polling timer is stopped and the start/stop
\* button shows the 'Disconnected' state.
C1_FailedReadStopsPolling ==
    [][(last'.op = "tick" /\ ~last'.read.ok) =>
          /\ timeData' = timeData
          /\ powerData' = powerData
          /\ ~timerActive'
          /\ text' = "Disconnected"
          /\ style' = "alert"]_vars

\* C1 witness: a read has just failed on a buffer that holds samples
C1_Witness ==
    /\ last.op = "tick" /\ ~last.read.ok
    /\ last.startLen = 2 /\ Len(timeData) = 2
    /\ ~timerActive /\ text = "Disconnected"

\* C2: after a tick whose read failed no further tick runs in the session,
\* whatever the user does.
C2_NoTickAfterFailure == ~(last.op = "tick" /\ last.afterFail)

\* C3: every tick whose read succeeds appends exactly the sample
\* (now, power), for every power including 0 and negative values.
C3_SuccessAppendsSample ==
    [][(last'.op = "tick" /\ last'.read.ok) =>
          /\ timeData' = Append(timeData, last'.now)
          /\ powerData' = Append(powerData, last'.read.pow)]_vars

\* C4: a tick whose buffer is empty when the crop runs completes without
\* error, draws nothing and leaves the region as it was.
C4_EmptyTickIsNoOp ==
    [][(last'.op = "tick" /\ timeData' = <<>>) =>
          /\ ~last'.raised
          /\ UNCHANGED <<maincurve, timecurve, maxline, current_power, numvals,
                         lines, bounds>>]_vars

\* C5: after every completed tick with a non-empty buffer the region is a
\* sub-interval of the buffer: times[0] <= lower <= upper <= times[-1].
C5_RangeInsideBuffer ==
    (last.op = "tick" /\ ~last.raised /\ timeData # <<>>) =>
        /\ timeData[1] <= lines[1]
        /\ lines[1] <= lines[2]
        /\ lines[2] <= LastTime

\* C5 witness: the upper-bound policy has extended the range to a `now`
\* beyond the last sample (the read failed) and the tick has completed
C5_Witness ==
    /\ last.op = "tick" /\ ~last.raised /\ ~last.read.ok
    /\ last.fired = "upper" /\ last.maxX > LastTime
    /\ Len(timeData) >= 2

\* C6: when minX < times[0] the policy yields exactly [times[0], now], also
\* when maxX >= times[-1] holds too: the lower-bound policy takes precedence
\* and only one of the two policies fires.
C6_LowerPolicyPrecedence ==
    (pOut.applied /\ pIn.minX < pIn.times[1]) =>
        /\ pOut.minX = pIn.times[1]
        /\ pOut.maxX = pIn.now
        /\ pOut.fired = "lower"

\* C6 witness: both conditions held and the lower-bound policy was applied
C6_Witness ==
    /\ pOut.applied /\ pOut.fired = "lower"
    /\ pIn.minX < pIn.times[1]
    /\ pIn.maxX >= pIn.times[Len(pIn.times)]
    /\ pIn.now > pIn.times[Len(pIn.times)]

\* the region spans the buffer from its first sample to (at least) its last
AtLiveEdge ==
    timeData # <<>> /\ lines[1] = timeData[1] /\ lines[2] >= LastTime

\* C7 as stated: a tick that starts at the live edge yields [times[0], now].
C7_LiveEdgeReachesNow ==
    [][(last'.op = "tick" /\ AtLiveEdge) =>
          lines' = <<timeData[1], last'.now>>]_vars

\* C7 amended: a tick that starts at the live edge yields
\* [times[0], times[-1]] of the buffer it leaves, which is [times[0], now]
\* exactly when the tick appended a sample.
C7_LiveEdgeTracksBuffer ==
    [][(last'.op = "tick" /\ AtLiveEdge) =>
          /\ lines' = <<timeData'[1], timeData'[Len(timeData')]>>
          /\ (lines'[2] = last'.now <=> timeData' # timeData)]_vars

\* C7 witness: two ticks in a row have appended at the live edge
C7_Witness ==
    /\ last.op = "tick" /\ last.pending = <<>>
    /\ last.startLen = 2 /\ Len(timeData) = 3
    /\ last.startRegion = <<timeData[1], timeData[2]>>
    /\ lines = <<timeData[1], last.now>>

\* the region lies inside the buffer, away from its last sample
Pinned ==
    /\ timeData # <<>>
    /\ timeData[1] <= lines[1] /\ lines[1] <= lines[2] /\ lines[2] < LastTime

\* C8: a region [a, b] with times[0] <= a <= b < times[-1] is left as it is
\* by every tick.
C8_ManualPinStable ==
    [][(last'.op = "tick" /\ Pinned) => lines' = lines]_vars

\* C8 witness: a tick has appended a sample to a buffer whose region was
\* pinned by a write that an earlier tick had already seen
C8_Witness ==
    /\ last.op = "tick" /\ last.pending = <<>>
    /\ last.startLen = 2 /\ Len(timeData) = 3
    /\ last.startRegion[2] < timeData[2]
    /\ lines = last.startRegion

\* C9: the tick that follows a manual write w of the region works on w: it
\* reads w at its start and the region it stores is w with the upper bound
\* moved to the live edge when w reached the last sample, inside the new
\* buffer span.
C9_WriteSeenByNextTick ==
    (last.op = "tick" /\ ~last.raised /\ last.pending # <<>>) =>
        LET w == last.pending
            span == <<timeData[1], LastTime>>
        IN  /\ last.startRegion = w
            /\ IF last.startLen = 0
               THEN lines = <<Max2(span[1], Min2(w[1], span[2])),
                              Max2(span[1], Min2(w[2], span[2]))>>
               ELSE /\ lines[1] = w[1]
                    /\ lines[2] = IF w[2] >= timeData[last.startLen]
                                  THEN LastTime ELSE w[2]

\* C9 witness: a tick has run on a region the user had just narrowed, and
\* has kept it
C9_Witness ==
    /\ last.op = "tick" /\ ~last.raised /\ last.pending # <<>>
    /\ last.startLen = 2 /\ Len(timeData) = 3
    /\ last.pending[1] > timeData[1] /\ last.pending[2] < timeData[2]
    /\ lines = last.pending

\* C10: in a completed tick the crop [i, j) of a buffer of more than one
\* sample is exactly the set of indices whose time lies in [minX, maxX]; for
\* a single sample j = 1.
C10_CropIsTimeRange ==
    (last.op = "tick" /\ ~last.raised /\ last.minX <= last.maxX) =>
        LET n == Len(timeData)
            inRange == {k \in 0..(n - 1) :
                          last.minX <= timeData[k + 1] /\ timeData[k + 1] <= last.maxX}
            atLeast == {k \in 0..(n - 1) : timeData[k + 1] >= last.minX}
            atMost  == {k \in 0..(n - 1) : timeData[k + 1] <= last.maxX}
        IN  IF n > 1
            THEN /\ inRange = {k \in 0..(n - 1) : last.i <= k /\ k < last.j}
                 /\ last.i \in atLeast /\ \A k \in atLeast : last.i <= k
                 /\ (last.j - 1) \in atMost /\ \A k \in atMost : k <= last.j - 1
            ELSE last.j = 1

\* C10 witness: both scans have moved, a sample is cut off at either end
C10_Witness ==
    /\ last.op = "tick" /\ ~last.raised
    /\ Len(timeData) = 3
    /\ last.i = 1 /\ last.j = 2

\* n / d rounded up (d > 0)
CeilDiv(n, d) == (n + d - 1) \div d

\* C11: for every buffer size N and visible count V the strides are
\* floor(N/1000)+1 and floor(V/1000)+1, the overview series has ceil(N/s1)
\* points, the zoomed series ceil(V/s2), and neither has more than 1001.
C11_PointBudget ==
    pOut.applied =>
        LET N == pIn.count
            V == pIn.j - pIn.i
        IN  /\ pOut.stride = (N \div 1000) + 1
            /\ pOut.stride2 = (V \div 1000) + 1
            /\ pOut.overview = CeilDiv(N, pOut.stride)
            /\ pOut.zoomed = CeilDiv(V, pOut.stride2)
            /\ pOut.overview <= 1001
            /\ pOut.zoomed <= 1001

\* C11 witness: 2000 samples of which 1999 are visible: strides 3 and 2
C11_Witness ==
    /\ pOut.applied
    /\ pIn.count = 2000 /\ pOut.numvals = 1999
    /\ pOut.stride = 3 /\ pOut.stride2 = 2
    /\ pOut.overview = 667 /\ pOut.zoomed = 1000

\* the samples of seq at the indices first, first + step, ... below limit
EveryNth(seq, first, limit, step) ==
    [k \in 1..CeilDiv(limit - first, step) |-> seq[first + (k - 1) * step + 1]]

\* C12: the zoomed series is exactly the samples at indices i, i+s2, i+2*s2,
\* ... below j and the overview series the samples at 0, s1, 2*s1, ... below
\* count, times and powers taken at the same indices, in buffer order.
C12_FixedStrideSubsequences ==
    pOut.applied =>
        LET s1 == pOut.stride
            s2 == pOut.stride2
        IN  /\ s1 = (Len(pIn.td) \div 1000) + 1
            /\ s2 = ((pIn.j - pIn.i) \div 1000) + 1
            /\ pOut.main.x = EveryNth(pIn.td, pIn.i, pIn.j, s2)
            /\ pOut.main.y = EveryNth(pIn.pd, pIn.i, pIn.j, s2)
            /\ pOut.time.x = EveryNth(pIn.td, 0, Len(pIn.td), s1)
            /\ pOut.time.y = EveryNth(pIn.pd, 0, Len(pIn.pd), s1)
            /\ Len(pOut.main.x) = Cardinality(SlicePoints(pIn.i, pIn.j, s2))
            /\ Len(pOut.time.x) = Cardinality(SlicePoints(0, Len(pIn.td), s1))

\* C12 witness: 2000 samples with the first one cut off: every third sample
\* in the overview, every second one from index 1 in the zoomed series
C12_Witness ==
    /\ pOut.applied
    /\ Len(pIn.td) = 2000 /\ pIn.i = 1 /\ pIn.j = 2000
    /\ pOut.stride = 3 /\ pOut.stride2 = 2
    /\ Len(pOut.time.x) = 667 /\ Len(pOut.main.x) = 1000
    /\ pOut.main.y[2] = pIn.pd[4]

\* C13: after every tick on a non-empty buffer the maximum line is the
\* largest power of the whole buffer, visible or not, and the current-reading
\* label is that of the power of the buffer's last sample.
C13_MaxAndCurrentOfBuffer ==
    (last.op = "tick" /\ timeData # <<>>) =>
        /\ ~last.raised
        /\ \E k \in 1..Len(powerData) : maxline = powerData[k]
        /\ \A k \in 1..Len(powerData) : powerData[k] <= maxline
        /\ current_power = FormatPower(powerData[Len(powerData)])

\* C13 witness: the largest power is the oldest sample, which the region has
\* left out of the zoomed series, and the newest sample is smaller
C13_Witness ==
    /\ last.op = "tick" /\ ~last.raised
    /\ Len(powerData) = 3
    /\ last.i >= 1
    /\ maxline = powerData[1]
    /\ \A k \in 1..Len(maincurve.y) : maincurve.y[k] < maxline
    /\ powerData[3] < maxline
    /\ current_power.unit = "uW" /\ current_power.hundredths = 10 * powerData[3]

\* the range the last tick cropped to holds every sample of the buffer
RangeCoversBuffer ==
    /\ last.op = "tick" /\ ~last.raised
    /\ last.minX <= timeData[1] /\ LastTime <= last.maxX

\* C14: after a tick whose range covers the whole buffer the number of
\* readings shown is the buffer's count and the zoomed and the overview series
\* are equal; with the ten samples of the scenario, one a second and the last
\* one at the time of the tick, the number shown is 10, the maximum line is
\* the largest power (10e-6 W) and the overview is all 10 samples (stride 1).
C14_WholeBufferVisible ==
    RangeCoversBuffer =>
        /\ numvals = Len(timeData)
        /\ maincurve = timecurve
        /\ (Len(timeData) = 10 /\ last.now = LastTime) =>
              /\ numvals = 10
              /\ maxline = 100
              /\ Len(timecurve.x) = 10
              /\ timecurve.x = timeData /\ timecurve.y = powerData

\* C14 witness: the tenth tick of the scenario, at the time of the tenth
\* sample, with the region on the whole buffer
C14_Witness ==
    /\ RangeCoversBuffer
    /\ Len(timeData) = 10
    /\ \A k \in 1..10 : timeData[k] = timeData[1] + (k - 1) /\ powerData[k] = 10 * k
    /\ last.now = timeData[10]
    /\ last.startRegion = <<timeData[1], timeData[9]>>
    /\ numvals = 10 /\ maxline = 100

\* C15: the buffer holds as many samples as ticks have appended since the
\* last reset, or since construction if there was none (`appended` counts the
\* appending ticks and a reset zeroes it); right after a reset that is 0.
C15_CountIsAppendsSinceReset ==
    /\ Len(timeData) = appended
    /\ Len(powerData) = appended

\* C15 witness: a reset has emptied a buffer of three samples (the curves,
\* which a reset leaves alone, still show them)
C15_Witness ==
    /\ last.op = "user"
    /\ appended = 0 /\ timeData = <<>>
    /\ Len(timecurve.x) = 3
    /\ bounds # NoBounds

\* a is an initial part of b
IsPrefix(a, b) == Len(a) <= Len(b) /\ \A k \in 1..Len(a) : a[k] = b[k]

\* C16: times and powers always have the same length, and every step either
\* keeps the samples it found as the initial part of the buffer, untouched and
\* in order (ticks and every user action but reset), or is the reset, which
\* empties both lists.
C16_AppendOnlyBetweenResets ==
    [][/\ Len(timeData) = Len(powerData)
       /\ Len(timeData') = Len(powerData')
       /\ \/ IsPrefix(timeData, timeData') /\ IsPrefix(powerData, powerData')
          \/ last'.op = "user" /\ timeData' = <<>> /\ powerData' = <<>>]_vars

\* C16 witness: a tick has added a third sample behind two older ones
C16_Witness ==
    /\ last.op = "tick" /\ last.startLen = 2
    /\ Len(timeData) = 3 /\ Len(powerData) = 3
    /\ timeData[3] = last.now /\ powerData[3] = last.read.pow

\* the step is a reset of a buffer that holds samples
ResetStep == last'.op = "user" /\ timeData # <<>> /\ timeData' = <<>>

\* the step is the first tick since a reset to leave the buffer non-empty
FirstSampleStep ==
    /\ last'.op = "tick" /\ bounds # NoBounds
    /\ timeData = <<>> /\ timeData' # <<>>

\* C17: a reset puts the region back into the state it has before any sample
\* (no bounds, the constructor's range), and the first tick that then sees a
\* non-empty buffer leaves a region that starts at the first new sample.
C17_ResetClearsRange ==
    [][/\ ResetStep => (bounds' = NoBounds /\ lines' = InitRegion)
       /\ FirstSampleStep => lines'[1] = timeData'[1]]_vars

\* What reset and the next tick do to the region: the reset leaves region and
\* bounds as they were, the tick that appends the first new sample reads that
\* old region and it is the new bounds that move it onto the sample.
ResetKeepsRange ==
    [][/\ ResetStep => (bounds' = bounds /\ lines' = lines /\ bounds' # NoBounds)
       /\ FirstSampleStep =>
             /\ last'.startRegion = lines
             /\ lines' = <<timeData'[1], timeData'[1]>>]_vars

\* C18: the step that writes the file leaves in it the header and one line
\* (time, power) per sample of the buffer as it is at that moment, in buffer
\* order, and changes neither the buffer nor the region and its bounds.
C18_SaveWritesBuffer ==
    [][last'.op = "save" =>
          /\ file'.header = "Time (s), Power (W)"
          /\ Len(file'.rows) = Len(timeData)
          /\ \A k \in 1..Len(timeData) : file'.rows[k] = <<timeData[k], powerData[k]>>
          /\ timeData' = timeData /\ powerData' = powerData
          /\ lines' = lines /\ bounds' = bounds]_vars

\* C18 witness: the dialog was opened on one sample, two more arrived while
\* it was open, and the file has the three
C18_Witness ==
    /\ last.op = "save"
    /\ dialog.startLen = 1
    /\ Len(timeData) = 3
    /\ Len(file.rows) = 3
    /\ file.rows[3] = <<timeData[3], powerData[3]>>

Abs(n) == IF n < 0 THEN 0 - n ELSE n

\* C19: the unit of the label is mW when the magnitude of the last power is
\* above 1e-3 W and uW otherwise, for positive and negative powers alike.
C19_UnitFromMagnitude ==
    pOut.applied =>
        pOut.label.unit = (IF Abs(pIn) > Milliwatt THEN "mW" ELSE "uW")

\* C20 as claimed: exactly 1e-3 W takes the mW branch, 5e-4 W reads
\* "0.50 mW" and 5e-7 W reads "0.50 uW".
C20_BoundaryIsMilliwatt ==
    pOut.applied =>
        /\ pIn = Milliwatt => pOut.label.unit = "mW"
        /\ pIn = 5000 => pOut.label = [unit |-> "mW", hundredths |-> 50]
        /\ pIn = 5 => pOut.label = [unit |-> "uW", hundredths |-> 50]

\* C20 amended: exactly 1e-3 W takes the uW branch and reads "1000.00 uW",
\* 5e-4 W reads "500.00 uW" and 5e-7 W reads "0.50 uW"; the first power to
\* read in mW is the next one above 1e-3 W.
C20_BoundaryIsMicrowatt ==
    pOut.applied =>
        /\ pIn = Milliwatt => pOut.label = [unit |-> "uW", hundredths |-> 100000]
        /\ pIn = 5000 => pOut.label = [unit |-> "uW", hundredths |-> 50000]
        /\ pIn = 5 => pOut.label = [unit |-> "uW", hundredths |-> 50]
        /\ pIn = Milliwatt + 1 => pOut.label = [unit |-> "mW", hundredths |-> 100]

\* C20 witness: the label of a last power of exactly 1e-3 W
C20_Witness ==
    /\ pOut.applied
    /\ pIn = Milliwatt
    /\ pOut.label.unit = "uW" /\ pOut.label.hundredths = 100000

\* C21: setWaveLength hands the device the wavelength asked for when it lies
\* in the range the instrument reports, the minimum when it is below it and
\* the maximum when it is above it, and wavelengthSet is the value handed over.
C21_WavelengthClamped ==
    pOut.applied =>
        /\ (pIn.min <= pIn.wavelength /\ pIn.wavelength <= pIn.max)
              => pOut.device = pIn.wavelength
        /\ pIn.wavelength < pIn.min => pOut.device = pIn.min
        /\ pIn.wavelength > pIn.max => pOut.device = pIn.max
        /\ pOut.wavelengthSet = pOut.device

\* C21 witness: a wavelength above the reported range, with another
\* wavelength set before the call
C21_Witness ==
    /\ pOut.applied
    /\ pIn.min < pIn.set /\ pIn.set < pIn.max /\ pIn.max < pIn.wavelength
    /\ pOut.device = pIn.max /\ pOut.wavelengthSet = pIn.max

\* no sample of the buffer lies in the range the last tick cropped to
AllOutsideRange ==
    \A k \in 1..Len(timeData) : timeData[k] < last.minX \/ timeData[k] > last.maxX

\* C22: in every tick the two scans end with 0 <= i <= j <= count without
\* running off the buffer (no IndexError), and when no sample lies in the
\* range the slice [i, j) is empty.
C22_CropScansInRange ==
    last.op = "tick" =>
        /\ ~last.raised
        /\ 0 <= last.i /\ last.i <= last.j /\ last.j <= Len(timeData)
        /\ AllOutsideRange => last.i = last.j

\* What the scans do on a buffer that holds samples: they stay inside it, and
\* the slice of a buffer with no sample in the range is empty unless the
\* buffer has a single sample, which is never cropped.
CropScansOnSamples ==
    (last.op = "tick" /\ timeData # <<>>) =>
        /\ ~last.raised
        /\ 0 <= last.i /\ last.i <= last.j /\ last.j <= Len(timeData)
        /\ AllOutsideRange => (IF Len(timeData) = 1 THEN last.j - last.i = 1
                                ELSE last.i = last.j)

\* the live plotting processes the supervisor has started for the path d
Live(d) == (IF items[d].data = "alive" THEN 1 ELSE 0) + orphans[d]

\* C23: at every moment at most one plotting process per device path is
\* alive.
C23_OneProcessPerDevice == \A d \in Devices : Live(d) <= 1

\* C24: once shutdown_program has run, no plotting process the supervisor
\* started is alive.
C24_ShutdownKillsAll == quit => \A d \in Devices : Live(d) = 0

\* C25: a pass that finds a listed item unchecked with a running process kills
\* the process and clears the item's handle, on either platform, connected or
\* not.
C25_UncheckKillsProcess ==
    [][\A d \in Devices :
          (pass'.op = "main_loop" /\ items[d].listed /\ ~items[d].checked
               /\ items[d].data = "alive")
          => (items'[d].data = "none" /\ Live(d)' = 0)]_vars

\* What a pass does with an unchecked item that has a running process: it
\* kills it and clears the handle when the path is among the pass's ports,
\* and otherwise leaves the process running.
UncheckKillsIfInPorts ==
    [][\A d \in Devices :
          (pass'.op = "main_loop" /\ items[d].listed /\ ~items[d].checked
               /\ items[d].data = "alive")
          => IF d \in Ports THEN items'[d].data = "none" /\ Live(d)' = Live(d) - 1
             ELSE Live(d)' = Live(d)]_vars

\* C26: in auto mode a pass lists an unlisted device, checks an unchecked
\* idle one and starts a process for a checked one that has none or a dead
\* one, and with the timer firing every device that stays attached while auto
\* mode stays on gets a live process.
C26_AutoStartsAttached ==
    /\ [][\A d \in Devices :
             (pass'.op = "main_loop" /\ auto /\ d \in Ports) =>
                 /\ ~items[d].listed => (items'[d].listed /\ ~items'[d].checked)
                 /\ (items[d].listed /\ ~items[d].checked /\ items[d].data = "none")
                       => (items'[d].checked /\ items'[d].data = "none")
                 /\ (items[d].checked /\ items[d].data # "alive")
                       => items'[d].data = "alive"]_vars
    /\ \A d \in Devices :
          (auto /\ d \in attached)
              ~> (items[d].data = "alive" \/ ~auto \/ d \notin attached \/ quit)

\* C26 witness: in auto mode a pass has started a process again for a device
\* whose process had died
C26_Witness ==
    \E d \in Devices :
        /\ auto /\ d \in attached
        /\ d \in pass.restarted
        /\ items[d].checked /\ items[d].data = "alive"

\* C27: in manual mode a pass that finds the process of a checked item dead
\* clears the handle and unchecks the item without starting a process; a
\* process is only ever started for an item that was checked before the pass,
\* and in manual mode only the user checks an item.
C27_ManualDoesNotRestart ==
    [][\A d \in Devices :
          /\ (pass'.op = "main_loop" /\ ~auto /\ d \in Ports /\ items[d].checked
                  /\ items[d].data = "dead")
                => (items'[d].listed /\ items'[d].data = "none" /\ ~items'[d].checked
                      /\ d \notin pass'.started)
          /\ (items[d].data # "alive" /\ items'[d].data = "alive")
                => (pass'.op = "main_loop" /\ items[d].checked)
          /\ (~auto /\ ~items[d].checked /\ items'[d].checked)
                => pass'.op = "event"]_vars

\* C27 witness: a manual-mode pass has cleared a dead process and left the
\* item unchecked and idle
C27_Witness ==
    \E d \in Devices :
        /\ ~auto /\ pass.op = "main_loop"
        /\ d \in pass.reaped /\ d \notin pass.started
        /\ items[d].listed /\ ~items[d].checked /\ items[d].data = "none"

\* C28: the polling timer is active only while the start/stop button is
\* unchecked, so no tick runs while it is checked; a click that unchecks the
\* button starts the timer and a click that checks it stops the timer.
C28_TimerOnlyWhileUnchecked ==
    [][/\ timerActive => ~checked
       /\ timerActive' => ~checked'
       /\ last'.op = "tick" => (~checked /\ ~checked')
       /\ (checked /\ ~checked') => (timerActive' /\ text' = "STOP")
       /\ (~checked /\ checked') => (~timerActive' /\ text' = "STOPPED")]_vars

\* C28 witness: after a failed read and samples in the buffer the button has
\* been checked and polling is stopped
C28_Witness ==
    /\ failed /\ timeData # <<>>
    /\ last.op = "user"
    /\ checked /\ ~timerActive /\ text = "STOPPED"

====
